---- MODULE Spec2Model ----
(***************************************************************************)
(* The native-function boundary of the NWN script engine: the general      *)
(* object functions of src/engines/nwn/script/functions_object.cpp         *)
(* (entering/exiting object, local variables, nearest-object queries),     *)
(* together with the collaborators they call (function context, object     *)
(* container and search cursor, per-object variable store, registry),      *)
(* and the start-up and run of the NWN2 engine (NWN2Engine::run, init,     *)
(* initResources, main).                                                   *)
(***************************************************************************)
EXTENDS Integers, Sequences, FiniteSets, TLC

VARIABLES
    world,      \* handle -> object (engine kind, area, type tag, position, tag)
    live,       \* handles whose object still exists
    store,      \* handle -> (<<name, type>> -> value): the objects' local variables
    pc,         \* "idle": the interpreter runs; "done": a native call has returned;
                \* "fatal": a call raised and the interpreter was aborted
    ctx,        \* the FunctionContext of the current call
    search,     \* what the call did with the object container
    objects,    \* the std::list<Object *> a nearest-object query collected
    written,    \* <<handle, name, type>> -> the value scripts last wrote there
    prevTriggerer,  \* the triggerer of the invocation before the current one
    build,      \* the signature, defaults and raw parameters a context is built from
    registry,   \* the three static tables and the lookup registered from them
    frame,      \* the locals of a nearest-object query that runs step by step
    engine      \* the NWN2Engine: where run() stands and what it has done

vars == <<world, live, store, pc, ctx, search, objects, written, prevTriggerer,
          build, registry, frame, engine>>

----------------------------------------------------------------------------
(* Bounds of the model *)

\* Positions lie on a line, 0..MaxPos.
MaxPos == 1

\* The largest nth a query is called with.
MaxNth == 3

\* The largest number of local variables all objects hold together.
MaxEntries == 2

----------------------------------------------------------------------------
(* Values: Aurora::NWScript::Variable, a tagged union *)

kTypeVoid   == "Void"
kTypeInt    == "Int"
kTypeFloat  == "Float"
kTypeString == "String"
kTypeObject == "Object"

\* The null object (Aurora::NWScript::Object *) 0.
kNull == 0

\* The handle the script compiler passes for OBJECT_SELF.
kSelf == -1

Var(t, v) == [type |-> t, val |-> v]

\* The value a Variable of type t is constructed with.
ZeroOf(t) ==
    CASE t = kTypeInt    -> Var(kTypeInt, 0)
      [] t = kTypeFloat  -> Var(kTypeFloat, 0)
      [] t = kTypeString -> Var(kTypeString, "")
      [] t = kTypeObject -> Var(kTypeObject, kNull)
      [] OTHER           -> Var(kTypeVoid, 0)

----------------------------------------------------------------------------
(* Objects *)

Handles == {1, 2, 3}

kAreaNone   == "none"
kAreaForest == "forest"
kAreaTown   == "town"

kObjectTypeNone     == 0
kObjectTypeCreature == 1
kObjectTypeItem     == 2
kObjectTypeMAX      == 10

Obj(nwn, area, type, tag) == [nwn |-> nwn, area |-> area, type |-> type, tag |-> tag]

\* The kinds of object a world is populated with. The last one is an
\* Aurora::NWScript::Object that is no NWN::Object: it has no area and no type.
Profiles ==
    { Obj(TRUE,  kAreaForest, kObjectTypeCreature, "a"),
      Obj(TRUE,  kAreaForest, kObjectTypeCreature, "b"),
      Obj(TRUE,  kAreaForest, kObjectTypeItem,     ""),
      Obj(TRUE,  kAreaTown,   kObjectTypeCreature, "a"),
      Obj(TRUE,  kAreaForest, kObjectTypeNone,     "a"),
      Obj(TRUE,  kAreaForest, kObjectTypeMAX,      "a"),
      Obj(TRUE,  kAreaForest, kObjectTypeMAX - 1,  "b"),
      Obj(FALSE, kAreaNone,   kObjectTypeNone,     "a") }

Placed(p, x) == [nwn |-> p.nwn, area |-> p.area, type |-> p.type, tag |-> p.tag, pos |-> x]

\* An object that is no NWN::Object has no position either.
Worlds ==
    [Handles -> { o \in { Placed(p, x) : p \in Profiles, x \in 0..MaxPos } :
                    o.nwn \/ o.pos = 0 }]

\* NWN::ObjectContainer::toObject: the checked downcast to NWN::Object.
toObject(h) == IF h # kNull /\ world[h].nwn THEN h ELSE kNull

----------------------------------------------------------------------------
(* The function context of one call *)

NoCtx == [fn |-> "none", params |-> <<>>, caller |-> kNull, triggerer |-> kNull,
          rtype |-> kTypeVoid, ret |-> ZeroOf(kTypeVoid), raised |-> FALSE]

NoSearch == [resolved |-> 0, obtained |-> 0, released |-> 0]

\* A fresh context: the parameters, the caller and triggerer, and a return
\* slot holding the zero value of the declared return type.
NewCtx(fn, rtype, params, caller, triggerer) ==
    [fn |-> fn, params |-> params, caller |-> caller, triggerer |-> triggerer,
     rtype |-> rtype, ret |-> ZeroOf(rtype), raised |-> FALSE]

\* No context is being built.
NoBuild == [signature |-> <<>>, defaults |-> <<>>, supplied |-> <<>>, touched |-> {}]

\* No table is looked at.
NoRegistry == [state |-> "running", pointers |-> <<>>, signatures |-> <<>>,
               defaults |-> <<>>, records |-> <<>>]

\* No query runs step by step: no target, no offset, no cursor, and the set of
\* objects that were live when the cursor was obtained.
NoFrame == [target |-> kNull, nth |-> 0, open |-> FALSE, cursor |-> <<>>,
            snapshot |-> {}]

\* No engine has been constructed.
NoEngine == [at |-> "none"]

\* Where the interpreter stands after a call: it goes on unless the call raised.
Outcome(c) == IF c.raised THEN "fatal" ELSE "done"

\* ctx.getParams()[n]: parameters are numbered from 0.
Param(c, n) == c.params[n + 1]

\* Functions::getParamObject: the object parameter n resolved to a live object,
\* OBJECT_SELF standing for the caller; null when it does not resolve.
getParamObject(c, n) ==
    LET h == Param(c, n).val
    IN  IF h = kSelf THEN (IF c.caller \in live THEN c.caller ELSE kNull)
        ELSE IF h \in live THEN h ELSE kNull

----------------------------------------------------------------------------
(* The object container and its search cursor *)

RECURSIVE Ascending(_)
\* The handles of a set, smallest first.
Ascending(S) ==
    IF S = {} THEN <<>>
    ELSE LET m == CHOOSE x \in S : \A y \in S : x <= y
         IN  <<m>> \o Ascending(S \ {m})

\* Module::findObjects: a cursor over every live object of the container.
findObjects == Ascending(live)

\* Module::findObjectsByTag: a cursor over the live objects carrying the tag.
findObjectsByTag(tag) == Ascending({h \in live : world[h].tag = tag})

Abs(x) == IF x < 0 THEN -x ELSE x

\* ObjectDistanceSort::getDistance: the distance of an object to the target.
Distance(h, target) == Abs(world[h].pos - world[target].pos)

\* ObjectDistanceSort::operator(): a comes before b.
DistanceLess(a, b, target) == Distance(a, target) < Distance(b, target)

RECURSIVE InsertByDistanceBeforeEqual(_, _, _)
\* x put in front of the first element it does not come after: equal elements
\* change places.
InsertByDistanceBeforeEqual(s, x, target) ==
    IF s = <<>> THEN <<x>>
    ELSE IF ~DistanceLess(Head(s), x, target) THEN <<x>> \o s
    ELSE <<Head(s)>> \o InsertByDistanceBeforeEqual(Tail(s), x, target)

RECURSIVE InsertByDistance(_, _, _)
\* x put behind every element that does not come after it.
InsertByDistance(s, x, target) ==
    IF s = <<>> THEN <<x>>
    ELSE IF DistanceLess(x, Head(s), target) THEN <<x>> \o s
    ELSE <<Head(s)>> \o InsertByDistance(Tail(s), x, target)

RECURSIVE SortByDistance(_, _)
\* std::list::sort with ObjectDistanceSort: a stable sort.
SortByDistance(s, target) ==
    IF s = <<>> THEN <<>>
    ELSE InsertByDistance(SortByDistance(SubSeq(s, 1, Len(s) - 1), target),
                          s[Len(s)], target)

----------------------------------------------------------------------------
(* Local variables *)

\* Variable::getInt, getFloat, getString, getObject: the value held, and the
\* zero value when the Variable is of another type.
getInt(v)    == IF v.type = kTypeInt THEN v.val ELSE 0
getFloat(v)  == IF v.type = kTypeFloat THEN v.val ELSE 0
getString(v) == IF v.type = kTypeString THEN v.val ELSE ""
getObject(v) == IF v.type = kTypeObject THEN v.val ELSE kNull

\* Object::getVariable(name, type): the entry under (name, type), the zero
\* value of the type when there is none.
getVariable(h, name, type) ==
    IF <<name, type>> \in DOMAIN store[h] THEN store[h][<<name, type>>] ELSE ZeroOf(type)

\* Object::setVariable(name, value): creates or overwrites the entry under
\* (name, type of the value).
setVariable(h, name, value) ==
    store' = [store EXCEPT ![h] = (<<name, value.type>> :> value) @@ @]

\* One getParamObject call, no cursor.
Resolved == [resolved |-> 1, obtained |-> 0, released |-> 0]

\* getLocalInt reading the entry of type float.
getLocalIntAsFloat(c) ==
    LET object == getParamObject(c, 0)
    IN  /\ ctx' = IF object # kNull
                  THEN [c EXCEPT !.ret = Var(kTypeInt,
                            getInt(getVariable(object, getString(Param(c, 1)), kTypeFloat)))]
                  ELSE c
        /\ search' = Resolved
        /\ UNCHANGED <<store, objects>>

\* Functions::getLocalInt
getLocalInt(c) ==
    LET object == getParamObject(c, 0)
    IN  /\ ctx' = IF object # kNull
                  THEN [c EXCEPT !.ret = Var(kTypeInt,
                            getInt(getVariable(object, getString(Param(c, 1)), kTypeInt)))]
                  ELSE c
        /\ search' = Resolved
        /\ UNCHANGED <<store, objects>>

\* Functions::getLocalFloat
getLocalFloat(c) ==
    LET object == getParamObject(c, 0)
    IN  /\ ctx' = IF object # kNull
                  THEN [c EXCEPT !.ret = Var(kTypeFloat,
                            getFloat(getVariable(object, getString(Param(c, 1)), kTypeFloat)))]
                  ELSE c
        /\ search' = Resolved
        /\ UNCHANGED <<store, objects>>

\* Functions::getLocalString
getLocalString(c) ==
    LET object == getParamObject(c, 0)
    IN  /\ ctx' = IF object # kNull
                  THEN [c EXCEPT !.ret = Var(kTypeString,
                            getString(getVariable(object, getString(Param(c, 1)), kTypeString)))]
                  ELSE c
        /\ search' = Resolved
        /\ UNCHANGED <<store, objects>>

\* Functions::getLocalObject
getLocalObject(c) ==
    LET object == getParamObject(c, 0)
    IN  /\ ctx' = IF object # kNull
                  THEN [c EXCEPT !.ret = Var(kTypeObject,
                            getObject(getVariable(object, getString(Param(c, 1)), kTypeObject)))]
                  ELSE c
        /\ search' = Resolved
        /\ UNCHANGED <<store, objects>>

\* setLocalInt without the test of the object: a null object parameter
\* writes to the caller.
setLocalIntUnguarded(c) ==
    LET object == getParamObject(c, 0)
        dest   == IF object # kNull THEN object ELSE c.caller
    IN  /\ setVariable(dest, getString(Param(c, 1)), Var(kTypeInt, getInt(Param(c, 2))))
        /\ ctx' = c
        /\ search' = Resolved
        /\ UNCHANGED objects

\* Functions::setLocalInt
setLocalInt(c) ==
    LET object == getParamObject(c, 0)
    IN  /\ IF object # kNull
           THEN setVariable(object, getString(Param(c, 1)), Var(kTypeInt, getInt(Param(c, 2))))
           ELSE UNCHANGED store
        /\ ctx' = c
        /\ search' = Resolved
        /\ UNCHANGED objects

\* Functions::setLocalFloat
setLocalFloat(c) ==
    LET object == getParamObject(c, 0)
    IN  /\ IF object # kNull
           THEN setVariable(object, getString(Param(c, 1)), Var(kTypeFloat, getFloat(Param(c, 2))))
           ELSE UNCHANGED store
        /\ ctx' = c
        /\ search' = Resolved
        /\ UNCHANGED objects

\* Functions::setLocalString
setLocalString(c) ==
    LET object == getParamObject(c, 0)
    IN  /\ IF object # kNull
           THEN setVariable(object, getString(Param(c, 1)), Var(kTypeString, getString(Param(c, 2))))
           ELSE UNCHANGED store
        /\ ctx' = c
        /\ search' = Resolved
        /\ UNCHANGED objects

\* Functions::setLocalObject
setLocalObject(c) ==
    LET object == getParamObject(c, 0)
    IN  /\ IF object # kNull
           THEN setVariable(object, getString(Param(c, 1)), Var(kTypeObject, getObject(Param(c, 2))))
           ELSE UNCHANGED store
        /\ ctx' = c
        /\ search' = Resolved
        /\ UNCHANGED objects

----------------------------------------------------------------------------
(* Entering and exiting objects *)

\* getEnteringObject remembering the last triggerer there was.
getEnteringObjectRemembered(c) ==
    /\ ctx' = [c EXCEPT !.ret = Var(kTypeObject,
                  IF c.triggerer # kNull THEN c.triggerer ELSE prevTriggerer)]
    /\ search' = NoSearch
    /\ UNCHANGED <<store, objects>>

\* Functions::getEnteringObject
getEnteringObject(c) ==
    /\ ctx' = [c EXCEPT !.ret = Var(kTypeObject, c.triggerer)]
    /\ search' = NoSearch
    /\ UNCHANGED <<store, objects>>

\* Functions::getExitingObject
getExitingObject(c) ==
    /\ ctx' = [c EXCEPT !.ret = Var(kTypeObject, c.triggerer)]
    /\ search' = NoSearch
    /\ UNCHANGED <<store, objects>>

----------------------------------------------------------------------------
(* Nearest-object queries *)

\* Bit b (0..31) of the int32 m converted to uint32.
BitOf(m, b) ==
    IF m >= 0 THEN (m \div 2^b) % 2 = 1
    ELSE IF b = 31 THEN TRUE
    ELSE (((m + 2147483647) + 1) \div 2^b) % 2 = 1

\* type & (1 << (objectType - 1))
TypeInMask(type, objectType) == BitOf(type, objectType - 1)

\* The bounds of int32.
kInt32Max == 2147483647
kInt32Min == -2147483647 - 1

\* MAX<int32>(nth - 1, 0): the values the expression can produce. At the most
\* negative nth the subtraction overflows a signed 32-bit integer, which is
\* undefined: a build that wraps produces the largest int32, a build that
\* folds the comparison into nth > 1 produces 0.
NthOffset(n) ==
    IF n = kInt32Min THEN {kInt32Max, 0}
    ELSE {IF n - 1 > 0 THEN n - 1 ELSE 0}

\* The first test of the loop with the area comparison left out.
InTargetAreaAnyArea(h, target) ==
    /\ toObject(h) # kNull
    /\ toObject(h) # target

\* The first test of the loop: a valid object, not the target, in the target's area.
InTargetArea(h, target) ==
    /\ toObject(h) # kNull
    /\ toObject(h) # target
    /\ world[toObject(h)].area = world[target].area

\* The second test of the loop with > MAX in place of >= MAX.
ValidObjectTypeUpToMAX(h) ==
    /\ world[h].type # kObjectTypeNone
    /\ world[h].type <= kObjectTypeMAX

\* The second test of the loop: the object type is neither None nor >= MAX.
ValidObjectType(h) ==
    /\ world[h].type # kObjectTypeNone
    /\ world[h].type < kObjectTypeMAX

\* The iterator advanced once more than nth times.
NthOfOneFurther(s, nth) == IF nth < Len(s) - 1 THEN s[nth + 2] ELSE kNull

\* The object the list iterator stands on after nth steps, null at the end.
NthOf(s, nth) == IF nth < Len(s) THEN s[nth + 1] ELSE kNull

\* getNearestObject obtaining the cursor before it looks at the target.
getNearestObjectSearchFirst(c) ==
    LET target == toObject(getParamObject(c, 1))
        type   == Param(c, 0).val
        found  == SelectSeq(findObjects,
                            LAMBDA h : /\ InTargetArea(h, target)
                                       /\ ValidObjectType(h)
                                       /\ TypeInMask(type, world[h].type))
        sorted == SortByDistance(found, target)
    IN  IF target = kNull
        THEN /\ ctx' = [c EXCEPT !.ret = Var(kTypeObject, kNull)]
             /\ search' = [resolved |-> 1, obtained |-> 1, released |-> 0]
             /\ objects' = <<>>
             /\ UNCHANGED store
        ELSE \E nth \in NthOffset(Param(c, 2).val) :
             /\ ctx' = [c EXCEPT !.ret = Var(kTypeObject, NthOf(sorted, nth))]
             /\ search' = [resolved |-> 1, obtained |-> 1, released |-> 1]
             /\ objects' = sorted
             /\ UNCHANGED store

\* Functions::getNearestObject
getNearestObject(c) ==
    LET target == toObject(getParamObject(c, 1))
        type   == Param(c, 0).val
        found  == SelectSeq(findObjects,
                            LAMBDA h : /\ InTargetArea(h, target)
                                       /\ ValidObjectType(h)
                                       /\ TypeInMask(type, world[h].type))
        sorted == SortByDistance(found, target)
    IN  IF target = kNull
        THEN /\ ctx' = [c EXCEPT !.ret = Var(kTypeObject, kNull)]
             /\ search' = [resolved |-> 1, obtained |-> 0, released |-> 0]
             /\ objects' = <<>>
             /\ UNCHANGED store
        ELSE \E nth \in NthOffset(Param(c, 2).val) :
             /\ ctx' = [c EXCEPT !.ret = Var(kTypeObject, NthOf(sorted, nth))]
             /\ search' = [resolved |-> 1, obtained |-> 1, released |-> 1]
             /\ objects' = sorted
             /\ UNCHANGED store

\* getNearestObjectByTag without the early return on an empty tag.
getNearestObjectByTagNoEmptyCheck(c) ==
    LET tag    == Param(c, 0).val
        target == toObject(getParamObject(c, 1))
        found  == SelectSeq(findObjectsByTag(tag),
                            LAMBDA h : /\ InTargetArea(h, target)
                                       /\ ValidObjectType(h))
        sorted == SortByDistance(found, target)
    IN  IF target = kNull
        THEN /\ ctx' = [c EXCEPT !.ret = Var(kTypeObject, kNull)]
             /\ search' = [resolved |-> 1, obtained |-> 0, released |-> 0]
             /\ objects' = <<>>
             /\ UNCHANGED store
        ELSE \E nth \in NthOffset(Param(c, 2).val) :
             /\ ctx' = [c EXCEPT !.ret = Var(kTypeObject, NthOf(sorted, nth))]
             /\ search' = [resolved |-> 1, obtained |-> 1, released |-> 1]
             /\ objects' = sorted
             /\ UNCHANGED store

\* getNearestObjectByTag without the test for invalid object types.
getNearestObjectByTagNoTypeCheck(c) ==
    LET tag    == Param(c, 0).val
        target == toObject(getParamObject(c, 1))
        found  == SelectSeq(findObjectsByTag(tag),
                            LAMBDA h : InTargetArea(h, target))
        sorted == SortByDistance(found, target)
    IN  IF tag = ""
        THEN /\ ctx' = [c EXCEPT !.ret = Var(kTypeObject, kNull)]
             /\ search' = NoSearch
             /\ objects' = <<>>
             /\ UNCHANGED store
        ELSE IF target = kNull
        THEN /\ ctx' = [c EXCEPT !.ret = Var(kTypeObject, kNull)]
             /\ search' = [resolved |-> 1, obtained |-> 0, released |-> 0]
             /\ objects' = <<>>
             /\ UNCHANGED store
        ELSE \E nth \in NthOffset(Param(c, 2).val) :
             /\ ctx' = [c EXCEPT !.ret = Var(kTypeObject, NthOf(sorted, nth))]
             /\ search' = [resolved |-> 1, obtained |-> 1, released |-> 1]
             /\ objects' = sorted
             /\ UNCHANGED store

\* Functions::getNearestObjectByTag
getNearestObjectByTag(c) ==
    LET tag    == Param(c, 0).val
        target == toObject(getParamObject(c, 1))
        found  == SelectSeq(findObjectsByTag(tag),
                            LAMBDA h : /\ InTargetArea(h, target)
                                       /\ ValidObjectType(h))
        sorted == SortByDistance(found, target)
    IN  IF tag = ""
        THEN /\ ctx' = [c EXCEPT !.ret = Var(kTypeObject, kNull)]
             /\ search' = NoSearch
             /\ objects' = <<>>
             /\ UNCHANGED store
        ELSE IF target = kNull
        THEN /\ ctx' = [c EXCEPT !.ret = Var(kTypeObject, kNull)]
             /\ search' = [resolved |-> 1, obtained |-> 0, released |-> 0]
             /\ objects' = <<>>
             /\ UNCHANGED store
        ELSE \E nth \in NthOffset(Param(c, 2).val) :
             /\ ctx' = [c EXCEPT !.ret = Var(kTypeObject, NthOf(sorted, nth))]
             /\ search' = [resolved |-> 1, obtained |-> 1, released |-> 1]
             /\ objects' = sorted
             /\ UNCHANGED store

----------------------------------------------------------------------------
(* The interpreter calling the queries *)

\* The type masks scripts pass: the creature bit, the item bit, and all 32
\* bits (the int32 -1).
Masks == {1, 2, -1}

\* The object parameter a script passes and the object running the script:
\* null or any handle (the caller is then not looked at), or OBJECT_SELF with
\* any caller.
ObjectParams ==
    { <<h, 1>> : h \in {kNull} \cup Handles } \cup { <<kSelf, h>> : h \in Handles }

Tags == {"", "a", "b"}

NthValues == 1..MaxNth

CallGetNearestObject ==
    /\ pc = "idle"
    /\ \E type \in Masks, ref \in ObjectParams, nth \in NthValues :
          getNearestObject(NewCtx("getNearestObject", kTypeObject,
              <<Var(kTypeInt, type), Var(kTypeObject, ref[1]), Var(kTypeInt, nth)>>,
              ref[2], kNull))
    /\ pc' = Outcome(ctx')
    /\ UNCHANGED <<build, registry, frame, engine>>
    /\ UNCHANGED <<world, live, written, prevTriggerer>>

CallGetNearestObjectByTag ==
    /\ pc = "idle"
    /\ \E tag \in Tags, ref \in ObjectParams, nth \in NthValues :
          getNearestObjectByTag(NewCtx("getNearestObjectByTag", kTypeObject,
              <<Var(kTypeString, tag), Var(kTypeObject, ref[1]), Var(kTypeInt, nth)>>,
              ref[2], kNull))
    /\ pc' = Outcome(ctx')
    /\ UNCHANGED <<build, registry, frame, engine>>
    /\ UNCHANGED <<world, live, written, prevTriggerer>>

\* The call returns to the interpreter and its context is discarded.
Return ==
    /\ pc = "done"
    /\ pc' = "idle"
    /\ ctx' = NoCtx
    /\ search' = NoSearch
    /\ objects' = <<>>
    /\ prevTriggerer' = ctx.triggerer
    /\ frame' = NoFrame
    /\ UNCHANGED <<world, live, store, written, build, registry, engine>>

NoStore == [h \in Handles |-> <<>>]

NothingWritten == <<>>

InitNearest ==
    /\ world \in Worlds
    /\ live = Handles
    /\ store = NoStore
    /\ pc = "idle"
    /\ ctx = NoCtx
    /\ search = NoSearch
    /\ objects = <<>>
    /\ written = NothingWritten
    /\ prevTriggerer = kNull
    /\ build = NoBuild
    /\ registry = NoRegistry
    /\ frame = NoFrame
    /\ engine = NoEngine

NextNearest ==
    \/ CallGetNearestObject
    \/ CallGetNearestObjectByTag
    \/ Return

SpecNearest == InitNearest /\ [][NextNearest]_vars

----------------------------------------------------------------------------
(* Properties of the nearest-object queries *)

\* The call that has just returned.
Returned(fn) == pc = "done" /\ ctx.fn = fn

\* The handle the reference parameter of a query names.
RefHandle == IF ctx.params[2].val = kSelf THEN ctx.caller ELSE ctx.params[2].val

\* The reference parameter names a live object of the engine's kind.
RefResolves == RefHandle \in live /\ world[RefHandle].nwn

\* Bit (t - 1) of the mask m, read off the two's complement of m.
MaskHasType(m, t) == (m % (2^t)) >= 2^(t - 1)

\* The objects a getNearestObject call is to choose from.
Candidates ==
    { h \in live : /\ h # RefHandle
                   /\ world[h].nwn
                   /\ world[h].area = world[RefHandle].area
                   /\ world[h].type >= 1
                   /\ world[h].type < kObjectTypeMAX
                   /\ MaskHasType(ctx.params[1].val, world[h].type) }

RefDistance(h) == Abs(world[h].pos - world[RefHandle].pos)

\* r has rank k among the set S ordered by distance to the reference: fewer
\* than k members are nearer, and at least k are as near.
HasRank(r, k, S) ==
    /\ r \in S
    /\ Cardinality({h \in S : RefDistance(h) < RefDistance(r)}) < k
    /\ Cardinality({h \in S : RefDistance(h) <= RefDistance(r)}) >= k

\* C1: getNearestObject with a resolvable reference and nth = k >= 1 returns
\* the candidate of rank k by distance (candidates: not the reference, in its
\* area, of a valid type the mask has), and null when k exceeds their number.
C1_NearestIsRankK ==
    (Returned("getNearestObject") /\ RefResolves /\ ctx.params[3].val >= 1) =>
        LET k == ctx.params[3].val
        IN  IF k > Cardinality(Candidates)
            THEN ctx.ret = Var(kTypeObject, kNull)
            ELSE ctx.ret.type = kTypeObject /\ HasRank(ctx.ret.val, k, Candidates)

\* The second nearest of two candidates is returned, the farther one although
\* the cursor produced it first.
C1_Witness ==
    /\ Returned("getNearestObject") /\ RefResolves
    /\ ctx.params[3].val = 2
    /\ ctx.ret.val # kNull
    /\ \E h \in Candidates : /\ RefDistance(h) < RefDistance(ctx.ret.val)
                             /\ h > ctx.ret.val

\* C2: what either query returns is null, or an object other than the
\* reference and in the reference's area.
C2_NeverRefNeverOtherArea ==
    (Returned("getNearestObject") \/ Returned("getNearestObjectByTag")) =>
        \/ ctx.ret = Var(kTypeObject, kNull)
        \/ /\ RefResolves
           /\ ctx.ret.type = kTypeObject
           /\ ctx.ret.val \in live
           /\ ctx.ret.val # RefHandle
           /\ world[ctx.ret.val].area = world[RefHandle].area

\* A query by tag returns an object while an object of another area carries
\* the tag too and is strictly nearer.
C2_Witness ==
    /\ Returned("getNearestObjectByTag")
    /\ ctx.ret.val # kNull
    /\ \E h \in live : /\ world[h].nwn
                       /\ world[h].tag = ctx.params[1].val
                       /\ world[h].area # world[RefHandle].area
                       /\ world[h].type = kObjectTypeCreature
                       /\ RefDistance(h) < RefDistance(ctx.ret.val)

\* C3: in getNearestObject an object other than the reference and in its area
\* is collected iff its type T has 1 <= T < MAX and bit T-1 of the mask is set.
C3_TypeMaskFilter ==
    (Returned("getNearestObject") /\ RefResolves) =>
        \A h \in live :
            (h # RefHandle /\ world[h].nwn /\ world[h].area = world[RefHandle].area) =>
                ((\E i \in 1..Len(objects) : objects[i] = h) <=>
                    /\ 1 <= world[h].type
                    /\ world[h].type < kObjectTypeMAX
                    /\ MaskHasType(ctx.params[1].val, world[h].type))

\* Under the mask with all 32 bits set an object of type MAX - 1 is collected
\* and an object of type MAX in the same area is not.
C3_Witness ==
    /\ Returned("getNearestObject") /\ RefResolves
    /\ ctx.params[1].val = -1
    /\ \E h \in live : /\ h # RefHandle /\ world[h].area = world[RefHandle].area
                       /\ world[h].type = kObjectTypeMAX
                       /\ \A i \in 1..Len(objects) : objects[i] # h
    /\ \E i \in 1..Len(objects) : world[objects[i]].type = kObjectTypeMAX - 1

\* C6: getNearestObjectByTag with an empty tag returns null, and has neither
\* resolved the reference nor obtained a cursor.
C6_EmptyTagShortCircuits ==
    (Returned("getNearestObjectByTag") /\ ctx.params[1].val = "") =>
        /\ ctx.ret = Var(kTypeObject, kNull)
        /\ search.resolved = 0
        /\ search.obtained = 0
        /\ objects = <<>>

\* An empty tag is asked for while an object with an empty tag stands in the
\* area of a resolvable reference.
C6_Witness ==
    /\ Returned("getNearestObjectByTag") /\ ctx.params[1].val = ""
    /\ RefResolves
    /\ \E h \in live : /\ h # RefHandle /\ world[h].tag = ""
                       /\ world[h].area = world[RefHandle].area

\* C12: when the reference parameter of either query does not resolve to an
\* object of the engine's kind, the call returns null and has obtained no
\* cursor from the container.
C12_UnresolvedRefNoCursor ==
    ((Returned("getNearestObject") \/ Returned("getNearestObjectByTag")) /\ ~RefResolves) =>
        /\ ctx.ret = Var(kTypeObject, kNull)
        /\ search.obtained = 0
        /\ objects = <<>>

\* getNearestObject is given a live object that is no NWN::Object as the
\* reference, while a creature the mask accepts exists.
C12_Witness ==
    /\ Returned("getNearestObject")
    /\ RefHandle \in live /\ ~world[RefHandle].nwn
    /\ search.resolved = 1
    /\ ctx.params[1].val = 1
    /\ \E h \in live : world[h].nwn /\ world[h].type = kObjectTypeCreature

\* The cursor produces a before b: the container hands its objects out in
\* the order of their handles.
ProducedBefore(a, b) == a < b

\* C14: in both queries the collected candidates stand in ascending distance
\* to the reference, two at equal distance in the order the cursor produced
\* them, and the object returned for nth is the one at place nth of that order
\* (null beyond its end).
C14_StableOrdering ==
    ((Returned("getNearestObject") \/ Returned("getNearestObjectByTag")) /\ RefResolves) =>
        /\ \A i, j \in 1..Len(objects) :
              i < j => \/ RefDistance(objects[i]) < RefDistance(objects[j])
                       \/ /\ RefDistance(objects[i]) = RefDistance(objects[j])
                          /\ ProducedBefore(objects[i], objects[j])
        /\ (search.obtained = 1 /\ ctx.params[3].val >= 1) =>
              ctx.ret.val = IF ctx.params[3].val <= Len(objects)
                            THEN objects[ctx.params[3].val] ELSE kNull

\* Two candidates stand at the same distance from the reference, away from
\* it, and the second nearest is asked for: the one the cursor produced last.
C14_Witness ==
    /\ Returned("getNearestObjectByTag") /\ RefResolves
    /\ Len(objects) = 2
    /\ RefDistance(objects[1]) = RefDistance(objects[2])
    /\ RefDistance(objects[1]) > 0
    /\ ctx.params[3].val = 2
    /\ ctx.ret.val = objects[2]

\* The objects a getNearestObjectByTag call is to choose from.
TagCandidates ==
    { h \in live : /\ h # RefHandle
                   /\ world[h].nwn
                   /\ world[h].area = world[RefHandle].area
                   /\ world[h].type >= 1
                   /\ world[h].type < kObjectTypeMAX
                   /\ world[h].tag = ctx.params[1].val }

\* The list getNearestObject collects and sorts for a type mask and a target
\* when the container holds the objects L.
NearestByType(L, type, target) ==
    SortByDistance(SelectSeq(Ascending(L),
                             LAMBDA h : /\ InTargetArea(h, target)
                                        /\ ValidObjectType(h)
                                        /\ TypeInMask(type, world[h].type)),
                   target)

\* C15: getNearestObjectByTag with a non-empty tag returns the nth nearest of
\* the objects that carry the tag, are not the reference, are in its area and
\* have a valid type; this is what getNearestObject returns under the mask of
\* all types in the world restricted to the objects carrying the tag.
C15_ByTagSamePipeline ==
    /\ (Returned("getNearestObject") /\ RefResolves) =>
          objects = NearestByType(live, ctx.params[1].val, RefHandle)
    /\ (Returned("getNearestObjectByTag") /\ RefResolves /\ ctx.params[1].val # ""
           /\ ctx.params[3].val >= 1) =>
          LET k == ctx.params[3].val
              tagged == {h \in live : world[h].tag = ctx.params[1].val}
          IN  /\ IF k > Cardinality(TagCandidates)
                 THEN ctx.ret = Var(kTypeObject, kNull)
                 ELSE ctx.ret.type = kTypeObject /\ HasRank(ctx.ret.val, k, TagCandidates)
              \* -1 is the mask with all 32 bits set: it accepts every valid type
              /\ objects = NearestByType(tagged \cup {RefHandle}, -1, RefHandle)
              /\ ctx.ret.val = NthOf(objects, k - 1)

\* A query by tag returns an object while a nearer object of the same area
\* carries the tag but has an invalid type.
C15_Witness ==
    /\ Returned("getNearestObjectByTag") /\ RefResolves
    /\ ctx.ret.val # kNull
    /\ \E h \in live : /\ h # RefHandle
                       /\ world[h].nwn
                       /\ world[h].tag = ctx.params[1].val
                       /\ world[h].area = world[RefHandle].area
                       /\ world[h].type \in {kObjectTypeNone, kObjectTypeMAX}
                       /\ RefDistance(h) < RefDistance(ctx.ret.val)

----------------------------------------------------------------------------
(* The queries called with every kind of nth *)

\* Worlds of three creatures in the forest, all tagged "a", at any positions.
CreatureWorlds ==
    [Handles -> { Placed(Obj(TRUE, kAreaForest, kObjectTypeCreature, "a"), x) :
                    x \in 0..MaxPos }]

\* The nth values scripts pass: the most negative int32, a negative one, zero,
\* and the 1-based ranks.
NthEdgeValues == {kInt32Min, -1, 0} \cup NthValues

CallGetNearestObjectAnyNth ==
    /\ pc = "idle"
    /\ \E ref \in Handles, nth \in NthEdgeValues :
          getNearestObject(NewCtx("getNearestObject", kTypeObject,
              <<Var(kTypeInt, 1), Var(kTypeObject, ref), Var(kTypeInt, nth)>>,
              ref, kNull))
    /\ pc' = Outcome(ctx')
    /\ UNCHANGED <<build, registry, frame, engine>>
    /\ UNCHANGED <<world, live, written, prevTriggerer>>

CallGetNearestObjectByTagAnyNth ==
    /\ pc = "idle"
    /\ \E ref \in Handles, nth \in NthEdgeValues :
          getNearestObjectByTag(NewCtx("getNearestObjectByTag", kTypeObject,
              <<Var(kTypeString, "a"), Var(kTypeObject, ref), Var(kTypeInt, nth)>>,
              ref, kNull))
    /\ pc' = Outcome(ctx')
    /\ UNCHANGED <<build, registry, frame, engine>>
    /\ UNCHANGED <<world, live, written, prevTriggerer>>

InitAnyNth ==
    /\ world \in CreatureWorlds
    /\ live = Handles
    /\ store = NoStore
    /\ pc = "idle"
    /\ ctx = NoCtx
    /\ search = NoSearch
    /\ objects = <<>>
    /\ written = NothingWritten
    /\ prevTriggerer = kNull
    /\ build = NoBuild
    /\ registry = NoRegistry
    /\ frame = NoFrame
    /\ engine = NoEngine

NextAnyNth ==
    \/ CallGetNearestObjectAnyNth
    \/ CallGetNearestObjectByTagAnyNth
    \/ Return

SpecAnyNth == InitAnyNth /\ [][NextAnyNth]_vars

\* The objects the query that has returned was to choose from.
QueryCandidates ==
    IF ctx.fn = "getNearestObject" THEN Candidates ELSE TagCandidates

\* A query with a resolvable reference (and a tag, if by tag) has returned.
QueryRan ==
    /\ Returned("getNearestObject") \/ Returned("getNearestObjectByTag")
    /\ RefResolves
    /\ ctx.fn = "getNearestObjectByTag" => ctx.params[1].val # ""

\* C11: in both queries every int32 nth <= 1, the most negative one included,
\* selects offset 0, the nearest candidate, and nth >= 2 selects offset
\* nth - 1; an offset beyond the candidates gives null.
C11_OffsetClampedAtZero ==
    QueryRan =>
        LET n == ctx.params[3].val
            k == IF n <= 1 THEN 1 ELSE n
        IN  IF k > Cardinality(QueryCandidates)
            THEN ctx.ret = Var(kTypeObject, kNull)
            ELSE ctx.ret.type = kTypeObject /\ HasRank(ctx.ret.val, k, QueryCandidates)

----------------------------------------------------------------------------
(* The queries run step by step, beside another script thread that deletes
   objects. The container keeps deletions out while a cursor is outstanding
   (the query-scoped lock of the collaborator); an object that was deleted
   keeps its last field values in memory, and reading them is undefined. *)

\* Functions::getNearestObject up to the cursor: the return slot is cleared,
\* the target resolved, the offset computed and the cursor obtained.
BeginGetNearestObject ==
    /\ pc = "idle"
    /\ \E ref \in Handles, nth \in NthValues :
          LET c == NewCtx("getNearestObject", kTypeObject,
                          <<Var(kTypeInt, 1), Var(kTypeObject, ref), Var(kTypeInt, nth)>>,
                          ref, kNull)
              target == toObject(getParamObject(c, 1))
          IN  /\ ctx' = c
              /\ IF target = kNull
                 THEN /\ search' = [resolved |-> 1, obtained |-> 0, released |-> 0]
                      /\ frame' = NoFrame
                      /\ pc' = "done"
                 ELSE \E offset \in NthOffset(Param(c, 2).val) :
                      /\ search' = [resolved |-> 1, obtained |-> 1, released |-> 0]
                      /\ frame' = [target |-> target, nth |-> offset, open |-> TRUE,
                                   cursor |-> findObjects, snapshot |-> live]
                      /\ pc' = "enumerating"
    /\ objects' = <<>>
    /\ UNCHANGED <<world, live, store, written, prevTriggerer, build, registry, engine>>

\* Functions::getNearestObjectByTag up to the cursor.
BeginGetNearestObjectByTag ==
    /\ pc = "idle"
    /\ \E tag \in Tags, ref \in Handles, nth \in NthValues :
          LET c == NewCtx("getNearestObjectByTag", kTypeObject,
                          <<Var(kTypeString, tag), Var(kTypeObject, ref), Var(kTypeInt, nth)>>,
                          ref, kNull)
              target == toObject(getParamObject(c, 1))
          IN  /\ ctx' = c
              /\ IF tag = ""
                 THEN /\ search' = NoSearch
                      /\ frame' = NoFrame
                      /\ pc' = "done"
                 ELSE IF target = kNull
                 THEN /\ search' = [resolved |-> 1, obtained |-> 0, released |-> 0]
                      /\ frame' = NoFrame
                      /\ pc' = "done"
                 ELSE \E offset \in NthOffset(Param(c, 2).val) :
                      /\ search' = [resolved |-> 1, obtained |-> 1, released |-> 0]
                      /\ frame' = [target |-> target, nth |-> offset, open |-> TRUE,
                                   cursor |-> findObjectsByTag(tag), snapshot |-> live]
                      /\ pc' = "enumerating"
    /\ objects' = <<>>
    /\ UNCHANGED <<world, live, store, written, prevTriggerer, build, registry, engine>>

\* One round of the loop: search->next() produces an object, the tests run,
\* and the object is pushed back if it passes.
SearchNext ==
    /\ pc = "enumerating"
    /\ frame.cursor # <<>>
    /\ LET h == Head(frame.cursor)
           accepted == /\ InTargetArea(h, frame.target)
                       /\ ValidObjectType(h)
                       /\ ctx.fn = "getNearestObject" =>
                              TypeInMask(Param(ctx, 0).val, world[h].type)
       IN  objects' = IF accepted THEN Append(objects, h) ELSE objects
    /\ frame' = [frame EXCEPT !.cursor = Tail(@)]
    /\ UNCHANGED <<world, live, store, pc, ctx, search, written, prevTriggerer,
                   build, registry, engine>>

\* A round of the loop raises (the cursor fails, or the list cannot allocate
\* a node): the exception leaves the function, past the delete of the cursor.
SearchNextRaises ==
    /\ pc = "enumerating"
    /\ ctx' = [ctx EXCEPT !.raised = TRUE]
    /\ pc' = Outcome(ctx')
    /\ UNCHANGED <<world, live, store, search, objects, written, prevTriggerer,
                   build, registry, frame, engine>>

\* search->next() returns null, the loop ends and the cursor is deleted.
SearchEnd ==
    /\ pc = "enumerating"
    /\ frame.cursor = <<>>
    /\ frame' = [frame EXCEPT !.open = FALSE]
    /\ search' = [search EXCEPT !.released = @ + 1]
    /\ pc' = "collected"
    /\ UNCHANGED <<world, live, store, ctx, objects, written, prevTriggerer,
                   build, registry, engine>>

\* objects.sort(ObjectDistanceSort(*target)). The comparator reads the
\* positions of the target and of the objects it compares; when one of them
\* has been deleted the read is undefined: it finds the old values, or faults.
SortObjects ==
    /\ pc = "collected"
    /\ \/ /\ objects' = SortByDistance(objects, frame.target)
          /\ pc' = "sorted"
          /\ UNCHANGED ctx
       \/ /\ Len(objects) >= 2
          /\ \E h \in {frame.target} \cup {objects[i] : i \in 1..Len(objects)} : h \notin live
          /\ ctx' = [ctx EXCEPT !.raised = TRUE]
          /\ pc' = Outcome(ctx')
          /\ UNCHANGED objects
    /\ UNCHANGED <<world, live, store, search, written, prevTriggerer, build,
                   registry, frame, engine>>

\* The iterator is advanced nth times and what it stands on is returned.
SelectNth ==
    /\ pc = "sorted"
    /\ ctx' = [ctx EXCEPT !.ret = Var(kTypeObject, NthOf(objects, frame.nth))]
    /\ pc' = Outcome(ctx')
    /\ UNCHANGED <<world, live, store, search, objects, written, prevTriggerer,
                   build, registry, frame, engine>>

\* Another script thread deletes an object; the container lets it through
\* only while no cursor is outstanding.
DeleteObject ==
    /\ pc # "fatal"
    /\ ~frame.open
    /\ \E h \in live :
          /\ live' = live \ {h}
          /\ store' = [store EXCEPT ![h] = <<>>]
    /\ UNCHANGED <<world, pc, ctx, search, objects, written, prevTriggerer, build,
                   registry, frame, engine>>

InitThreads == InitAnyNth

NextThreads ==
    \/ BeginGetNearestObject
    \/ BeginGetNearestObjectByTag
    \/ SearchNext
    \/ SearchNextRaises
    \/ SearchEnd
    \/ SortObjects
    \/ SelectNth
    \/ DeleteObject
    \/ Return

SpecThreads == InitThreads /\ [][NextThreads]_vars

\* An invocation of a query has ended, by returning or by raising.
QueryEnded ==
    /\ pc \in {"done", "fatal"}
    /\ ctx.fn \in {"getNearestObject", "getNearestObjectByTag"}

\* C13: an invocation of either query obtains at most one cursor and has
\* released every cursor it obtained when it ends, however it ends; between
\* invocations no cursor is outstanding.
C13_CursorReleasedOnEveryPath ==
    /\ search.obtained <= 1
    /\ search.released <= search.obtained
    /\ QueryEnded => (search.released = search.obtained /\ ~frame.open)
    /\ pc = "idle" => ~frame.open

\* The objects the running query is to choose from, among those that were
\* live when it obtained its cursor.
SnapshotCandidates ==
    { h \in frame.snapshot :
        /\ h # RefHandle
        /\ world[h].nwn
        /\ world[h].area = world[RefHandle].area
        /\ world[h].type >= 1
        /\ world[h].type < kObjectTypeMAX
        /\ IF ctx.fn = "getNearestObject"
           THEN MaskHasType(ctx.params[1].val, world[h].type)
           ELSE world[h].tag = ctx.params[1].val }

\* C16: a query that runs beside deletions by another thread never collects,
\* sorts or returns an object whose deletion has taken effect, and what it
\* returns is what the query gives on the objects that were live when it
\* obtained its cursor.
C16_ConsistentSnapshot ==
    [][/\ (pc = "enumerating" /\ Len(objects') > Len(objects)) =>
              objects'[Len(objects')] \in live
       /\ (pc = "collected" /\ pc' = "sorted") =>
              \A i \in 1..Len(objects) : objects[i] \in live
       /\ (pc = "sorted" /\ pc' = "done") =>
              LET k == ctx.params[3].val
              IN  /\ ctx'.ret.val # kNull => ctx'.ret.val \in live
                  /\ IF k > Cardinality(SnapshotCandidates)
                     THEN ctx'.ret = Var(kTypeObject, kNull)
                     ELSE HasRank(ctx'.ret.val, k, SnapshotCandidates)]_vars

----------------------------------------------------------------------------
(* The interpreter calling the local-variable and triggerer functions *)

\* The world these calls run in: three creatures standing in the forest.
InitWorld == [h \in Handles |-> Placed(Obj(TRUE, kAreaForest, kObjectTypeCreature, "a"), 0)]

\* The object parameter and the caller of a local-variable call: null, the
\* objects 1 and 2 called by object 1, and OBJECT_SELF called by object 2.
LocalObjectParams == { <<kNull, 1>>, <<1, 1>>, <<2, 1>>, <<kSelf, 2>> }

Names == {"x", "y"}

IntValues    == {5, 7}
FloatValues  == {2}
StringValues == {"s"}
ObjectValues == {3}

\* The number of local variables all objects hold together.
StoreSize ==
    Cardinality({ e \in Handles \X (Names \X {kTypeInt, kTypeFloat, kTypeString, kTypeObject}) :
                    e[2] \in DOMAIN store[e[1]] })

\* The object a parameter and caller stand for, whether it is live or not.
HandleOf(o) == IF o[1] = kSelf THEN o[2] ELSE o[1]

\* The interpreter invokes one of the getLocal functions.
CallGet(fn, Handler(_), t) ==
    /\ pc = "idle"
    /\ \E o \in LocalObjectParams, name \in Names :
          Handler(NewCtx(fn, t, <<Var(kTypeObject, o[1]), Var(kTypeString, name)>>,
                         o[2], kNull))
    /\ pc' = Outcome(ctx')
    /\ UNCHANGED <<build, registry, frame, engine>>
    /\ UNCHANGED <<world, live, written, prevTriggerer>>

\* The interpreter invokes one of the setLocal functions; what the script wrote
\* to an object that exists is kept in written.
CallSet(fn, Handler(_), t, values) ==
    /\ pc = "idle"
    /\ \E o \in LocalObjectParams, name \in Names, v \in values :
          /\ IF HandleOf(o) \in live
             THEN StoreSize < MaxEntries \/ <<name, t>> \in DOMAIN store[HandleOf(o)]
             ELSE TRUE
          /\ Handler(NewCtx(fn, kTypeVoid,
                            <<Var(kTypeObject, o[1]), Var(kTypeString, name), Var(t, v)>>,
                            o[2], kNull))
          /\ written' = IF HandleOf(o) \in live
                        THEN (<<HandleOf(o), name, t>> :> v) @@ written
                        ELSE written
    /\ pc' = Outcome(ctx')
    /\ UNCHANGED <<build, registry, frame, engine>>
    /\ UNCHANGED <<world, live, prevTriggerer>>

CallGetLocalInt    == CallGet("getLocalInt", getLocalInt, kTypeInt)
CallGetLocalFloat  == CallGet("getLocalFloat", getLocalFloat, kTypeFloat)
CallGetLocalString == CallGet("getLocalString", getLocalString, kTypeString)
CallGetLocalObject == CallGet("getLocalObject", getLocalObject, kTypeObject)

CallSetLocalInt    == CallSet("setLocalInt", setLocalInt, kTypeInt, IntValues)
CallSetLocalFloat  == CallSet("setLocalFloat", setLocalFloat, kTypeFloat, FloatValues)
CallSetLocalString == CallSet("setLocalString", setLocalString, kTypeString, StringValues)
CallSetLocalObject == CallSet("setLocalObject", setLocalObject, kTypeObject, ObjectValues)

\* The triggerers a script is run with.
Triggerers == {kNull, 1, 2}

CallGetEnteringObject ==
    /\ pc = "idle"
    /\ \E t \in Triggerers :
          getEnteringObject(NewCtx("getEnteringObject", kTypeObject, <<>>, 1, t))
    /\ pc' = Outcome(ctx')
    /\ UNCHANGED <<build, registry, frame, engine>>
    /\ UNCHANGED <<world, live, written>>
    /\ UNCHANGED prevTriggerer

CallGetExitingObject ==
    /\ pc = "idle"
    /\ \E t \in Triggerers :
          getExitingObject(NewCtx("getExitingObject", kTypeObject, <<>>, 1, t))
    /\ pc' = Outcome(ctx')
    /\ UNCHANGED <<build, registry, frame, engine>>
    /\ UNCHANGED <<world, live, written>>
    /\ UNCHANGED prevTriggerer

\* The fallback that raises instead of returning.
unimplementedFunctionRaises(c) ==
    /\ ctx' = [c EXCEPT !.raised = TRUE]
    /\ search' = NoSearch
    /\ UNCHANGED <<store, objects>>

\* Functions::unimplementedFunction: logs the call and leaves the return slot
\* as it was constructed.
unimplementedFunction(c) ==
    /\ ctx' = c
    /\ search' = NoSearch
    /\ UNCHANGED <<store, objects>>

\* The return types a call site can declare, Void when it is not known.
ReturnTypes == {kTypeVoid, kTypeInt, kTypeFloat, kTypeString, kTypeObject}

\* The interpreter invokes a function id the registry does not hold.
CallUnregistered ==
    /\ pc = "idle"
    /\ \E t \in ReturnTypes, o \in LocalObjectParams :
          unimplementedFunction(NewCtx("unimplementedFunction", t,
                                       <<Var(kTypeObject, o[1])>>, o[2], kNull))
    /\ pc' = Outcome(ctx')
    /\ UNCHANGED <<build, registry, frame, engine>>
    /\ UNCHANGED <<world, live, written, prevTriggerer>>

\* The world destroys an object: its handle no longer resolves and its local
\* variables go with it.
DestroyObject ==
    /\ pc = "idle"
    /\ \E h \in live \cap {1, 2} :
          /\ live' = live \ {h}
          /\ store' = [store EXCEPT ![h] = <<>>]
          /\ written' = [k \in {e \in DOMAIN written : e[1] # h} |-> written[k]]
    /\ UNCHANGED <<world, pc, ctx, search, objects, prevTriggerer, build, registry,
                   frame, engine>>

Init ==
    /\ world = InitWorld
    /\ live = Handles
    /\ store = NoStore
    /\ pc = "idle"
    /\ ctx = NoCtx
    /\ search = NoSearch
    /\ objects = <<>>
    /\ written = NothingWritten
    /\ prevTriggerer = kNull
    /\ build = NoBuild
    /\ registry = NoRegistry
    /\ frame = NoFrame
    /\ engine = NoEngine

Next ==
    \/ CallGetLocalInt
    \/ CallGetLocalFloat
    \/ CallGetLocalString
    \/ CallGetLocalObject
    \/ CallSetLocalInt
    \/ CallSetLocalFloat
    \/ CallSetLocalString
    \/ CallSetLocalObject
    \/ CallGetEnteringObject
    \/ CallGetExitingObject
    \/ CallUnregistered
    \/ DestroyObject
    \/ Return

Spec == Init /\ [][Next]_vars

----------------------------------------------------------------------------
(* Properties of the local-variable and triggerer functions *)

GetLocalFunctions == {"getLocalInt", "getLocalFloat", "getLocalString", "getLocalObject"}
SetLocalFunctions == {"setLocalInt", "setLocalFloat", "setLocalString", "setLocalObject"}

\* The object parameter 0 of the returned call names, live or not.
LocalHandle == IF ctx.params[1].val = kSelf THEN ctx.caller ELSE ctx.params[1].val

\* Parameter 0 of the returned call names a live object.
LocalResolves == LocalHandle \in live

\* What the scripts last wrote under (h, name, t): the zero value of t when
\* they wrote nothing there.
LastWritten(h, name, t) ==
    IF <<h, name, t>> \in DOMAIN written THEN Var(t, written[<<h, name, t>>]) ELSE ZeroOf(t)

\* C4: getLocalInt(o, name) on a resolvable object returns the value of the
\* last setLocalInt on (o, name), 0 when there was none, whatever was written
\* under other types, other names or to other objects; so do the getLocal
\* functions of the other three types.
C4_LocalRoundTrip ==
    (pc = "done" /\ ctx.fn \in GetLocalFunctions /\ LocalResolves) =>
        ctx.ret = LastWritten(LocalHandle, ctx.params[2].val, ctx.rtype)

\* getLocalInt returns the int a script wrote while a float is stored under
\* the same name of the same object.
C4_Witness ==
    /\ Returned("getLocalInt") /\ LocalResolves
    /\ ctx.ret \in {Var(kTypeInt, 5), Var(kTypeInt, 7)}
    /\ <<ctx.params[2].val, kTypeFloat>> \in DOMAIN store[LocalHandle]

\* C5: a setLocal call whose parameter 0 does not resolve changes no local
\* variable of any object, a getLocal call whose parameter 0 does not resolve
\* leaves the return slot at the zero value of its type, and neither raises.
C5_UnresolvedIsNoOp ==
    [][(/\ pc = "idle"
        /\ ctx'.fn \in GetLocalFunctions \cup SetLocalFunctions
        /\ ~LocalResolves')
       => (/\ store' = store
           /\ ctx'.ret = ZeroOf(ctx'.rtype)
           /\ ~ctx'.raised
           /\ pc' = "done")]_vars

\* setLocalInt has returned from a call on the handle of a destroyed object
\* while another object holds a local variable.
C5_Witness ==
    /\ Returned("setLocalInt")
    /\ LocalHandle # kNull /\ ~LocalResolves
    /\ StoreSize > 0

\* C7: getEnteringObject and getExitingObject return the triggerer of the
\* invocation they are called in, whatever the triggerer before was.
C7_CurrentTriggererOnly ==
    (Returned("getEnteringObject") \/ Returned("getExitingObject")) =>
        ctx.ret = Var(kTypeObject, ctx.triggerer)

\* getEnteringObject returns null in an invocation without a triggerer that
\* follows an invocation with one.
C7_Witness ==
    /\ Returned("getEnteringObject")
    /\ prevTriggerer # kNull
    /\ ctx.triggerer = kNull
    /\ ctx.ret = Var(kTypeObject, kNull)

\* C8: invoking an unregistered id returns the zero value of the declared
\* return type, raises nothing, lets the interpreter go on, and changes no
\* object and no local variable.
C8_UnregisteredFallsBack ==
    [][(pc = "idle" /\ ctx'.fn = "unimplementedFunction")
       => (/\ ctx'.ret = ZeroOf(ctx'.rtype)
           /\ ~ctx'.raised
           /\ pc' = "done"
           /\ store' = store
           /\ live' = live
           /\ world' = world)]_vars

\* An unregistered id declared to return an object has been invoked while
\* local variables exist.
C8_Witness ==
    /\ Returned("unimplementedFunction")
    /\ ctx.rtype = kTypeObject
    /\ ctx.ret = Var(kTypeObject, kNull)
    /\ StoreSize > 0

----------------------------------------------------------------------------
(* Building the function context of a call *)

\* FunctionSignature::parameters[8]
kMaxParameters == 8

\* FunctionDefaults::defaults[6]
kMaxDefaults == 6

\* Default number j put at the first parameter the call left out.
DefaultSlotFromFirstMissing(n, d, p, j) == p + j

\* The parameter default number j stands for: the defaults are right-aligned
\* to the signature.
DefaultSlot(n, d, p, j) == n - d + j

\* The parameter slots (numbered from 0) after the defaults were filled in:
\* every slot of the signature is constructed with the zero value of its type,
\* the supplied parameters are copied to the front, and each default whose
\* slot was not supplied is written to its slot.
FilledSlots(signature, defaults, supplied) ==
    LET n == Len(signature)
        d == Len(defaults)
        p == Len(supplied)
        fromDefaults == { j \in 0..(d - 1) : DefaultSlot(n, d, p, j) >= p }
        slotOf(j) == DefaultSlot(n, d, p, j)
        written0 == (0..(n - 1)) \cup { slotOf(j) : j \in fromDefaults }
    IN  [i \in written0 |->
            IF i < p THEN supplied[i + 1]
            ELSE IF \E j \in fromDefaults : slotOf(j) = i
                 THEN defaults[(CHOOSE j \in fromDefaults : slotOf(j) = i) + 1]
            ELSE ZeroOf(signature[i + 1])]

\* The dispatcher builds the context of a call from the registry record and
\* the raw parameters; a slot beyond the signature is an index out of bounds.
BuildContext ==
    /\ pc = "idle"
    /\ build.touched = {}
    /\ LET n     == Len(build.signature)
           slots == FilledSlots(build.signature, build.defaults, build.supplied)
           c     == NewCtx("invoke", kTypeVoid, [i \in 1..n |-> slots[i - 1]], kNull, kNull)
       IN  /\ build' = [build EXCEPT !.touched = DOMAIN slots]
           /\ ctx' = [c EXCEPT !.raised = \E i \in DOMAIN slots : i >= n]
    /\ pc' = Outcome(ctx')
    /\ search' = NoSearch
    /\ UNCHANGED <<world, live, store, objects, written, prevTriggerer, registry,
                   frame, engine>>

\* The call returns and its context is discarded.
ReturnBuilt ==
    /\ pc = "done"
    /\ pc' = "idle"
    /\ ctx' = NoCtx
    /\ UNCHANGED <<world, live, store, search, objects, written, prevTriggerer,
                   build, registry, frame, engine>>

\* The declared type of parameter i (from 0) of the signatures tried.
SlotType(i) ==
    CASE i % 4 = 0 -> kTypeObject
      [] i % 4 = 1 -> kTypeString
      [] i % 4 = 2 -> kTypeInt
      [] OTHER     -> kTypeFloat

\* A value of type t that tells the slot or default it was made for.
Marked(t, k) == IF t = kTypeString THEN Var(t, "marked") ELSE Var(t, k)

\* A signature of n parameters, its d defaults and a call supplying p parameters.
BuildOf(n, d, p) ==
    [signature |-> [i \in 1..n |-> SlotType(i - 1)],
     defaults  |-> [j \in 1..d |-> Marked(SlotType(n - d + j - 1), 100 + j)],
     supplied  |-> [i \in 1..p |-> Marked(SlotType(i - 1), 200 + i)],
     touched   |-> {}]

InitContext ==
    /\ world = InitWorld
    /\ live = Handles
    /\ store = NoStore
    /\ pc = "idle"
    /\ ctx = NoCtx
    /\ search = NoSearch
    /\ objects = <<>>
    /\ written = NothingWritten
    /\ prevTriggerer = kNull
    /\ registry = NoRegistry
    /\ frame = NoFrame
    /\ engine = NoEngine
    /\ \E n \in 0..kMaxParameters :
       \E d \in 0..(IF n < kMaxDefaults THEN n ELSE kMaxDefaults) :
       \E p \in 0..n :
          build = BuildOf(n, d, p)

NextContext ==
    \/ BuildContext
    \/ ReturnBuilt

SpecContext == InitContext /\ [][NextContext]_vars

\* C9: with p parameters supplied to a signature of n with d defaults, the
\* context holds exactly n slots: the supplied values in slots 0..p-1, default
\* number i-(n-d) in every later slot i >= n-d, the zero value of the declared
\* type in every later slot i < n-d; and no slot >= n is touched.
C9_DefaultsRightAligned ==
    (pc # "idle" /\ ctx.fn = "invoke") =>
        LET n == Len(build.signature)
            d == Len(build.defaults)
            p == Len(build.supplied)
        IN  /\ pc = "done"
            /\ Len(ctx.params) = n
            /\ build.touched \subseteq 0..(n - 1)
            /\ \A i \in 0..(n - 1) :
                  ctx.params[i + 1] =
                      IF i < p THEN build.supplied[i + 1]
                      ELSE IF i >= n - d THEN build.defaults[i - (n - d) + 1]
                      ELSE ZeroOf(build.signature[i + 1])

\* A call that supplies some parameters, leaves a zero-filled slot and has at
\* least two slots filled from the defaults.
C9_Witness ==
    /\ pc = "done" /\ ctx.fn = "invoke"
    /\ Len(build.supplied) >= 1
    /\ Len(build.signature) - Len(build.defaults) > Len(build.supplied)
    /\ Len(build.defaults) >= 2
    /\ ctx.params[Len(ctx.params)] = build.defaults[Len(build.defaults)]

----------------------------------------------------------------------------
(* The function registry *)

\* The longest static table tried.
MaxTable == 3

\* The function ids the tables are written with.
Ids == {1, 2, 3}

\* The static tables kFunctionPointers, kFunctionSignatures, kFunctionDefaults,
\* each given by the ids of its entries in order.
Tables == UNION { [1..n -> Ids] : n \in 0..MaxTable }

IdsOf(t) == { t[i] : i \in DOMAIN t }

\* An id occurs in two entries of the table.
HasDuplicate(t) == \E i, j \in DOMAIN t : i < j /\ t[i] = t[j]

\* The entry of the table registered for the id: the last one, 0 for none.
EntryOf(t, id) ==
    IF id \in IdsOf(t) THEN CHOOSE i \in DOMAIN t : t[i] = id /\ \A j \in DOMAIN t : t[j] = id => j <= i
    ELSE 0

\* The lookup merged from the three tables: per id the entry of each table.
RecordsOf(r) ==
    [id \in IdsOf(r.pointers) |->
        [pointer |-> EntryOf(r.pointers, id),
         signature |-> EntryOf(r.signatures, id),
         defaults |-> EntryOf(r.defaults, id)]]

\* Registration that lets a later entry replace an earlier one of the same id.
registerFunctionsOverwriting ==
    /\ registry.state = "startup"
    /\ registry' = [registry EXCEPT !.state = "running", !.records = RecordsOf(registry)]
    /\ UNCHANGED <<world, live, store, pc, ctx, search, objects, written,
                   prevTriggerer, build, frame, engine>>

\* Functions::registerFunctions: every entry of the tables is registered under
\* its id; registering an id a second time is fatal.
registerFunctions ==
    /\ registry.state = "startup"
    /\ registry' =
          IF \/ HasDuplicate(registry.pointers)
             \/ HasDuplicate(registry.signatures)
             \/ HasDuplicate(registry.defaults)
          THEN [registry EXCEPT !.state = "fatal"]
          ELSE [registry EXCEPT !.state = "running", !.records = RecordsOf(registry)]
    /\ UNCHANGED <<world, live, store, pc, ctx, search, objects, written,
                   prevTriggerer, build, frame, engine>>

\* The dispatcher resolves an id and invokes what it finds: the function
\* registered, or the fallback for an id that is not.
Invoke ==
    /\ registry.state = "running"
    /\ pc = "idle"
    /\ \E id \in Ids :
          ctx' = NewCtx(IF id \in DOMAIN registry.records
                        THEN "invoke" ELSE "unimplementedFunction",
                        kTypeVoid, <<Var(kTypeInt, id)>>, kNull, kNull)
    /\ pc' = Outcome(ctx')
    /\ UNCHANGED <<world, live, store, search, objects, written, prevTriggerer,
                   build, registry, frame, engine>>

\* The tables before registration: every function has a pointer entry and a
\* signature entry, and defaults are given for functions only.
InitRegistry ==
    /\ world = InitWorld
    /\ live = Handles
    /\ store = NoStore
    /\ pc = "idle"
    /\ ctx = NoCtx
    /\ search = NoSearch
    /\ objects = <<>>
    /\ written = NothingWritten
    /\ prevTriggerer = kNull
    /\ build = NoBuild
    /\ frame = NoFrame
    /\ engine = NoEngine
    /\ \E pointers \in Tables, signatures \in Tables, defaults \in Tables :
          /\ IdsOf(signatures) = IdsOf(pointers)
          /\ IdsOf(defaults) \subseteq IdsOf(pointers)
          /\ registry = [state |-> "startup", pointers |-> pointers,
                         signatures |-> signatures, defaults |-> defaults,
                         records |-> <<>>]

NextRegistry ==
    \/ registerFunctions
    \/ Invoke
    \/ ReturnBuilt

SpecRegistry == InitRegistry /\ [][NextRegistry]_vars

\* The registry serves calls: every id of a table has one entry there, one
\* signature entry and a pointer entry, and the lookup holds them.
Consistent(r) ==
    /\ ~HasDuplicate(r.pointers)
    /\ ~HasDuplicate(r.signatures)
    /\ ~HasDuplicate(r.defaults)
    /\ \A id \in IdsOf(r.pointers) :
          Cardinality({i \in DOMAIN r.signatures : r.signatures[i] = id}) = 1
    /\ IdsOf(r.signatures) \subseteq IdsOf(r.pointers)
    /\ IdsOf(r.defaults) \subseteq IdsOf(r.pointers)
    /\ DOMAIN r.records = IdsOf(r.pointers)
    /\ \A id \in DOMAIN r.records :
          /\ r.pointers[r.records[id].pointer] = id
          /\ r.signatures[r.records[id].signature] = id
          /\ r.records[id].defaults # 0 => r.defaults[r.records[id].defaults] = id

\* C10: once registered, the registry is consistent (one signature entry per
\* pointer id, a pointer entry for every signature and defaults id, no id
\* twice in a table) and no invocation changes it; tables with a duplicate id
\* end registration in a fatal error.
C10_RegistryConsistent ==
    [][/\ registry'.state = "running" => Consistent(registry')
       /\ registry.state # "startup" => registry' = registry
       /\ (registry.state = "startup" /\ registry'.state # "startup"
           /\ HasDuplicate(registry.pointers)) => registry'.state = "fatal"]_vars

\* A function was invoked through a registry of three functions, one of them
\* with defaults.
C10_Witness ==
    /\ registry.state = "running"
    /\ pc = "done" /\ ctx.fn = "invoke"
    /\ Cardinality(DOMAIN registry.records) = 3
    /\ Len(registry.defaults) = 1

----------------------------------------------------------------------------
(* The NWN2 engine: NWN2Engine::run and the start-up it drives *)

\* The steps the LoadProgress of init is created with.
kProgressSteps == 21

\* The calls NWN2Engine::initResources makes, in order: a progress step, or
\* the indexing of an archive or directory under a priority. The group of an
\* indexed entry is the progress step it stands under.
InitResourcesCalls ==
    << [op |-> "step", mandatory |-> FALSE, name |-> "Setting base directory", priority |-> 0, group |-> "none"],
       [op |-> "index", mandatory |-> TRUE, name |-> "", priority |-> 1, group |-> "base"],
       [op |-> "step", mandatory |-> FALSE, name |-> "Adding extra archive directories", priority |-> 0, group |-> "none"],
       [op |-> "step", mandatory |-> FALSE, name |-> "Loading main resource files", priority |-> 0, group |-> "none"],
       [op |-> "index", mandatory |-> TRUE, name |-> "2da.zip", priority |-> 10, group |-> "main"],
       [op |-> "index", mandatory |-> TRUE, name |-> "actors.zip", priority |-> 11, group |-> "main"],
       [op |-> "index", mandatory |-> TRUE, name |-> "animtags.zip", priority |-> 12, group |-> "main"],
       [op |-> "index", mandatory |-> TRUE, name |-> "convo.zip", priority |-> 13, group |-> "main"],
       [op |-> "index", mandatory |-> TRUE, name |-> "ini.zip", priority |-> 14, group |-> "main"],
       [op |-> "index", mandatory |-> TRUE, name |-> "lod-merged.zip", priority |-> 15, group |-> "main"],
       [op |-> "index", mandatory |-> TRUE, name |-> "music.zip", priority |-> 16, group |-> "main"],
       [op |-> "index", mandatory |-> TRUE, name |-> "nwn2_materials.zip", priority |-> 17, group |-> "main"],
       [op |-> "index", mandatory |-> TRUE, name |-> "nwn2_models.zip", priority |-> 18, group |-> "main"],
       [op |-> "index", mandatory |-> TRUE, name |-> "nwn2_vfx.zip", priority |-> 19, group |-> "main"],
       [op |-> "index", mandatory |-> TRUE, name |-> "prefabs.zip", priority |-> 20, group |-> "main"],
       [op |-> "index", mandatory |-> TRUE, name |-> "scripts.zip", priority |-> 21, group |-> "main"],
       [op |-> "index", mandatory |-> TRUE, name |-> "sounds.zip", priority |-> 22, group |-> "main"],
       [op |-> "index", mandatory |-> TRUE, name |-> "soundsets.zip", priority |-> 23, group |-> "main"],
       [op |-> "index", mandatory |-> TRUE, name |-> "speedtree.zip", priority |-> 24, group |-> "main"],
       [op |-> "index", mandatory |-> TRUE, name |-> "templates.zip", priority |-> 25, group |-> "main"],
       [op |-> "index", mandatory |-> TRUE, name |-> "vo.zip", priority |-> 26, group |-> "main"],
       [op |-> "index", mandatory |-> TRUE, name |-> "walkmesh.zip", priority |-> 27, group |-> "main"],
       [op |-> "step", mandatory |-> FALSE, name |-> "Loading expansion 1 resource files", priority |-> 0, group |-> "none"],
       [op |-> "index", mandatory |-> FALSE, name |-> "2da_x1.zip", priority |-> 50, group |-> "expansion1"],
       [op |-> "index", mandatory |-> FALSE, name |-> "actors_x1.zip", priority |-> 51, group |-> "expansion1"],
       [op |-> "index", mandatory |-> FALSE, name |-> "animtags_x1.zip", priority |-> 52, group |-> "expansion1"],
       [op |-> "index", mandatory |-> FALSE, name |-> "convo_x1.zip", priority |-> 53, group |-> "expansion1"],
       [op |-> "index", mandatory |-> FALSE, name |-> "ini_x1.zip", priority |-> 54, group |-> "expansion1"],
       [op |-> "index", mandatory |-> FALSE, name |-> "lod-merged_x1.zip", priority |-> 55, group |-> "expansion1"],
       [op |-> "index", mandatory |-> FALSE, name |-> "music_x1.zip", priority |-> 56, group |-> "expansion1"],
       [op |-> "index", mandatory |-> FALSE, name |-> "nwn2_materials_x1.zip", priority |-> 57, group |-> "expansion1"],
       [op |-> "index", mandatory |-> FALSE, name |-> "nwn2_models_x1.zip", priority |-> 58, group |-> "expansion1"],
       [op |-> "index", mandatory |-> FALSE, name |-> "nwn2_vfx_x1.zip", priority |-> 59, group |-> "expansion1"],
       [op |-> "index", mandatory |-> FALSE, name |-> "prefabs_x1.zip", priority |-> 60, group |-> "expansion1"],
       [op |-> "index", mandatory |-> FALSE, name |-> "scripts_x1.zip", priority |-> 61, group |-> "expansion1"],
       [op |-> "index", mandatory |-> FALSE, name |-> "soundsets_x1.zip", priority |-> 62, group |-> "expansion1"],
       [op |-> "index", mandatory |-> FALSE, name |-> "sounds_x1.zip", priority |-> 63, group |-> "expansion1"],
       [op |-> "index", mandatory |-> FALSE, name |-> "speedtree_x1.zip", priority |-> 64, group |-> "expansion1"],
       [op |-> "index", mandatory |-> FALSE, name |-> "templates_x1.zip", priority |-> 65, group |-> "expansion1"],
       [op |-> "index", mandatory |-> FALSE, name |-> "vo_x1.zip", priority |-> 66, group |-> "expansion1"],
       [op |-> "index", mandatory |-> FALSE, name |-> "walkmesh_x1.zip", priority |-> 67, group |-> "expansion1"],
       [op |-> "step", mandatory |-> FALSE, name |-> "Loading expansion 2 resource files", priority |-> 0, group |-> "none"],
       [op |-> "index", mandatory |-> FALSE, name |-> "2da_x2.zip", priority |-> 100, group |-> "expansion2"],
       [op |-> "index", mandatory |-> FALSE, name |-> "actors_x2.zip", priority |-> 101, group |-> "expansion2"],
       [op |-> "index", mandatory |-> FALSE, name |-> "animtags_x2.zip", priority |-> 102, group |-> "expansion2"],
       [op |-> "index", mandatory |-> FALSE, name |-> "lod-merged_x2.zip", priority |-> 103, group |-> "expansion2"],
       [op |-> "index", mandatory |-> FALSE, name |-> "music_x2.zip", priority |-> 104, group |-> "expansion2"],
       [op |-> "index", mandatory |-> FALSE, name |-> "nwn2_materials_x2.zip", priority |-> 105, group |-> "expansion2"],
       [op |-> "index", mandatory |-> FALSE, name |-> "nwn2_models_x2.zip", priority |-> 106, group |-> "expansion2"],
       [op |-> "index", mandatory |-> FALSE, name |-> "nwn2_vfx_x2.zip", priority |-> 107, group |-> "expansion2"],
       [op |-> "index", mandatory |-> FALSE, name |-> "prefabs_x2.zip", priority |-> 108, group |-> "expansion2"],
       [op |-> "index", mandatory |-> FALSE, name |-> "scripts_x2.zip", priority |-> 109, group |-> "expansion2"],
       [op |-> "index", mandatory |-> FALSE, name |-> "soundsets_x2.zip", priority |-> 110, group |-> "expansion2"],
       [op |-> "index", mandatory |-> FALSE, name |-> "sounds_x2.zip", priority |-> 111, group |-> "expansion2"],
       [op |-> "index", mandatory |-> FALSE, name |-> "speedtree_x2.zip", priority |-> 112, group |-> "expansion2"],
       [op |-> "index", mandatory |-> FALSE, name |-> "templates_x2.zip", priority |-> 113, group |-> "expansion2"],
       [op |-> "index", mandatory |-> FALSE, name |-> "vo_x2.zip", priority |-> 114, group |-> "expansion2"],
       [op |-> "step", mandatory |-> FALSE, name |-> "Loading patch resource files", priority |-> 0, group |-> "none"],
       [op |-> "index", mandatory |-> FALSE, name |-> "actors_v103x1.zip", priority |-> 150, group |-> "patches"],
       [op |-> "index", mandatory |-> FALSE, name |-> "actors_v106.zip", priority |-> 151, group |-> "patches"],
       [op |-> "index", mandatory |-> FALSE, name |-> "lod-merged_v101.zip", priority |-> 152, group |-> "patches"],
       [op |-> "index", mandatory |-> FALSE, name |-> "lod-merged_v107.zip", priority |-> 153, group |-> "patches"],
       [op |-> "index", mandatory |-> FALSE, name |-> "lod-merged_v121.zip", priority |-> 154, group |-> "patches"],
       [op |-> "index", mandatory |-> FALSE, name |-> "lod-merged_x1_v121.zip", priority |-> 155, group |-> "patches"],
       [op |-> "index", mandatory |-> FALSE, name |-> "lod-merged_x2_v121.zip", priority |-> 156, group |-> "patches"],
       [op |-> "index", mandatory |-> FALSE, name |-> "nwn2_materials_v103x1.zip", priority |-> 157, group |-> "patches"],
       [op |-> "index", mandatory |-> FALSE, name |-> "nwn2_materials_v104.zip", priority |-> 158, group |-> "patches"],
       [op |-> "index", mandatory |-> FALSE, name |-> "nwn2_materials_v106.zip", priority |-> 159, group |-> "patches"],
       [op |-> "index", mandatory |-> FALSE, name |-> "nwn2_materials_v107.zip", priority |-> 160, group |-> "patches"],
       [op |-> "index", mandatory |-> FALSE, name |-> "nwn2_materials_v110.zip", priority |-> 161, group |-> "patches"],
       [op |-> "index", mandatory |-> FALSE, name |-> "nwn2_materials_v112.zip", priority |-> 162, group |-> "patches"],
       [op |-> "index", mandatory |-> FALSE, name |-> "nwn2_materials_v121.zip", priority |-> 163, group |-> "patches"],
       [op |-> "index", mandatory |-> FALSE, name |-> "nwn2_materials_x1_v113.zip", priority |-> 164, group |-> "patches"],
       [op |-> "index", mandatory |-> FALSE, name |-> "nwn2_materials_x1_v121.zip", priority |-> 165, group |-> "patches"],
       [op |-> "index", mandatory |-> FALSE, name |-> "nwn2_models_v103x1.zip", priority |-> 166, group |-> "patches"],
       [op |-> "index", mandatory |-> FALSE, name |-> "nwn2_models_v104.zip", priority |-> 167, group |-> "patches"],
       [op |-> "index", mandatory |-> FALSE, name |-> "nwn2_models_v105.zip", priority |-> 168, group |-> "patches"],
       [op |-> "index", mandatory |-> FALSE, name |-> "nwn2_models_v106.zip", priority |-> 169, group |-> "patches"],
       [op |-> "index", mandatory |-> FALSE, name |-> "nwn2_models_v107.zip", priority |-> 160, group |-> "patches"],
       [op |-> "index", mandatory |-> FALSE, name |-> "nwn2_models_v112.zip", priority |-> 171, group |-> "patches"],
       [op |-> "index", mandatory |-> FALSE, name |-> "nwn2_models_v121.zip", priority |-> 172, group |-> "patches"],
       [op |-> "index", mandatory |-> FALSE, name |-> "nwn2_models_x1_v121.zip", priority |-> 173, group |-> "patches"],
       [op |-> "index", mandatory |-> FALSE, name |-> "nwn2_models_x2_v121.zip", priority |-> 174, group |-> "patches"],
       [op |-> "index", mandatory |-> FALSE, name |-> "templates_v112.zip", priority |-> 175, group |-> "patches"],
       [op |-> "index", mandatory |-> FALSE, name |-> "templates_v122.zip", priority |-> 176, group |-> "patches"],
       [op |-> "index", mandatory |-> FALSE, name |-> "templates_x1_v122.zip", priority |-> 177, group |-> "patches"],
       [op |-> "index", mandatory |-> FALSE, name |-> "vo_103x1.zip", priority |-> 178, group |-> "patches"],
       [op |-> "index", mandatory |-> FALSE, name |-> "vo_106.zip", priority |-> 179, group |-> "patches"],
       [op |-> "step", mandatory |-> FALSE, name |-> "Indexing extra sound resources", priority |-> 0, group |-> "none"],
       [op |-> "index", mandatory |-> TRUE, name |-> "ambient", priority |-> 200, group |-> "extra"],
       [op |-> "index", mandatory |-> FALSE, name |-> "ambient_x1", priority |-> 201, group |-> "extra"],
       [op |-> "index", mandatory |-> FALSE, name |-> "ambient_x2", priority |-> 202, group |-> "extra"],
       [op |-> "step", mandatory |-> FALSE, name |-> "Indexing extra music resources", priority |-> 0, group |-> "none"],
       [op |-> "index", mandatory |-> TRUE, name |-> "music", priority |-> 203, group |-> "extra"],
       [op |-> "index", mandatory |-> FALSE, name |-> "music_x1", priority |-> 204, group |-> "extra"],
       [op |-> "index", mandatory |-> FALSE, name |-> "music_x2", priority |-> 205, group |-> "extra"],
       [op |-> "step", mandatory |-> FALSE, name |-> "Indexing extra movie resources", priority |-> 0, group |-> "none"],
       [op |-> "index", mandatory |-> TRUE, name |-> "movies", priority |-> 206, group |-> "extra"],
       [op |-> "step", mandatory |-> FALSE, name |-> "Indexing extra effects resources", priority |-> 0, group |-> "none"],
       [op |-> "index", mandatory |-> TRUE, name |-> "effects", priority |-> 207, group |-> "extra"],
       [op |-> "step", mandatory |-> FALSE, name |-> "Indexing extra character resources", priority |-> 0, group |-> "none"],
       [op |-> "index", mandatory |-> TRUE, name |-> "localvault", priority |-> 208, group |-> "extra"],
       [op |-> "step", mandatory |-> FALSE, name |-> "Indexing extra UI resources", priority |-> 0, group |-> "none"],
       [op |-> "index", mandatory |-> TRUE, name |-> "ui", priority |-> 209, group |-> "extra"],
       [op |-> "step", mandatory |-> FALSE, name |-> "Indexing Windows-specific resources", priority |-> 0, group |-> "none"],
       [op |-> "index", mandatory |-> TRUE, name |-> "nwn2main.exe", priority |-> 250, group |-> "windows"],
       [op |-> "step", mandatory |-> FALSE, name |-> "Indexing override files", priority |-> 0, group |-> "none"],
       [op |-> "index", mandatory |-> FALSE, name |-> "override", priority |-> 500, group |-> "override"],
       [op |-> "step", mandatory |-> FALSE, name |-> "Loading main talk table", priority |-> 0, group |-> "none"],
       [op |-> "step", mandatory |-> FALSE, name |-> "Registering file formats", priority |-> 0, group |-> "none"] >>

\* The groups whose archives and directories an installation may lack.
OptionalGroups == {"expansion1", "expansion2", "patches", "extra", "override"}

\* The optional archives and directories of a group.
OptionalNames(g) ==
    { InitResourcesCalls[i].name :
        i \in { j \in DOMAIN InitResourcesCalls :
                  /\ InitResourcesCalls[j].op = "index"
                  /\ ~InitResourcesCalls[j].mandatory
                  /\ InitResourcesCalls[j].group = g } }

\* The installations the engine is started on: the mandatory files, and the
\* optional files of any of the groups.
Installations == { UNION { OptionalNames(g) : g \in G } : G \in SUBSET OptionalGroups }

\* indexMandatory* indexes its archive or directory; indexOptional* indexes
\* it when the installation has it.
Indexes(call, installed) ==
    call.op = "index" /\ (call.mandatory \/ call.name \in installed)

\* The number of progress.step calls among the calls.
StepsOf(calls) == Cardinality({i \in DOMAIN calls : calls[i].op = "step"})

\* NWN2Engine::NWN2Engine: the engine as run() finds it.
NewEngine(installed) ==
    [at |-> "constructed", installed |-> installed, quit |-> FALSE,
     trace |-> <<>>, checks |-> <<>>, hides |-> 0, shows |-> 0,
     steps |-> 0, initEnd |-> "none", indexed |-> <<>>,
     campaign |-> "null", module |-> "null", created |-> 0, deletes |-> 0,
     destroyed |-> FALSE]

\* Everything but the engine stays as it is.
EngineOnly ==
    UNCHANGED <<world, live, store, pc, ctx, search, objects, written,
                prevTriggerer, build, registry, frame>>

\* The user asks to quit: from then on EventMan.quitRequested() is true.
RequestQuit ==
    /\ engine.at \notin {"returned", "aborted"}
    /\ ~engine.quit
    /\ engine' = [engine EXCEPT !.quit = TRUE]
    /\ EngineOnly

\* run() calls init(), which creates the LoadProgress, evaluates the language,
\* loads the configuration and declares the encodings: two progress steps.
RunInit ==
    /\ engine.at = "constructed"
    /\ engine' = [engine EXCEPT !.at = "configured",
                                !.trace = Append(@, "init"),
                                !.initEnd = "running",
                                !.steps = @ + 2]
    /\ EngineOnly

\* init() calls initResources(progress).
InitResources ==
    /\ engine.at = "configured"
    /\ engine' = [engine EXCEPT
                    !.at = "resources",
                    !.steps = @ + StepsOf(InitResourcesCalls),
                    !.indexed = SelectSeq(InitResourcesCalls,
                                          LAMBDA call : Indexes(call, engine.installed))]
    /\ EngineOnly

\* init() after initResources: return on a quit request, else load the cursors.
InitCursors ==
    /\ engine.at = "resources"
    /\ IF engine.quit
       THEN engine' = [engine EXCEPT !.at = "initialized", !.initEnd = "quit"]
       ELSE engine' = [engine EXCEPT !.at = "cursors", !.steps = @ + 1]
    /\ EngineOnly

\* init() without its last progress step.
InitGameConfigNoLastStep ==
    /\ engine.at = "cursors"
    /\ IF engine.quit
       THEN engine' = [engine EXCEPT !.at = "initialized", !.initEnd = "quit"]
       ELSE engine' = [engine EXCEPT !.at = "initialized", !.initEnd = "end",
                                     !.steps = @ + 1]
    /\ EngineOnly

\* init() after initCursors: return on a quit request, else set the game
\* configuration and report success: two progress steps.
InitGameConfig ==
    /\ engine.at = "cursors"
    /\ IF engine.quit
       THEN engine' = [engine EXCEPT !.at = "initialized", !.initEnd = "quit"]
       ELSE engine' = [engine EXCEPT !.at = "initialized", !.initEnd = "end",
                                     !.steps = @ + 2]
    /\ EngineOnly

\* run() after init(): return on a quit request, else hide the cursor.
HideCursor ==
    /\ engine.at = "initialized"
    /\ IF engine.quit
       THEN engine' = [engine EXCEPT !.at = "returned",
                                     !.checks = Append(@, TRUE)]
       ELSE engine' = [engine EXCEPT !.at = "hidden",
                                     !.checks = Append(@, FALSE),
                                     !.hides = @ + 1,
                                     !.trace = Append(@, "hideCursor")]
    /\ EngineOnly

\* run() calls playIntroVideos().
PlayIntroVideos ==
    /\ engine.at = "hidden"
    /\ engine' = [engine EXCEPT !.at = "videos",
                                !.trace = Append(@, "playIntroVideos")]
    /\ EngineOnly

\* run() after the videos, going on whatever quitRequested() says.
ShowCursorIgnoringQuit ==
    /\ engine.at = "videos"
    /\ engine' = [engine EXCEPT !.at = "shown",
                                !.checks = Append(@, engine.quit),
                                !.shows = @ + 1,
                                !.trace = Append(@, "showCursor")]
    /\ EngineOnly

\* run() after the videos, going on to main() without showing the cursor.
ShowCursorForgotten ==
    /\ engine.at = "videos"
    /\ IF engine.quit
       THEN engine' = [engine EXCEPT !.at = "returned",
                                     !.checks = Append(@, TRUE)]
       ELSE engine' = [engine EXCEPT !.at = "shown",
                                     !.checks = Append(@, FALSE)]
    /\ EngineOnly

\* run() after the videos: return on a quit request, else show the cursor.
ShowCursor ==
    /\ engine.at = "videos"
    /\ IF engine.quit
       THEN engine' = [engine EXCEPT !.at = "returned",
                                     !.checks = Append(@, TRUE)]
       ELSE engine' = [engine EXCEPT !.at = "shown",
                                     !.checks = Append(@, FALSE),
                                     !.shows = @ + 1,
                                     !.trace = Append(@, "showCursor")]
    /\ EngineOnly

\* run() calls main(): the campaign is created and its campaigns are listed;
\* with none found, error() leaves main with _campaign still set. What the
\* campaign's getModule() returns is the campaign's affair: a module or null.
Main ==
    /\ engine.at = "shown"
    /\ \E found \in BOOLEAN, module \in {"null", "module"} :
          engine' = [engine EXCEPT !.at = IF found THEN "main" ELSE "aborted",
                                   !.trace = Append(@, "main"),
                                   !.campaign = "campaign",
                                   !.module = module,
                                   !.created = @ + 1]
    /\ EngineOnly

\* main() loads, runs and clears the campaign and deletes it: until the next
\* statement _campaign points to the deleted object, and what a call through
\* it returns is undefined.
MainDeletes ==
    /\ engine.at = "main"
    /\ \E module \in {"null", "module"} :
          engine' = [engine EXCEPT !.at = "deleting",
                                   !.campaign = "dangling",
                                   !.module = module,
                                   !.deletes = @ + 1]
    /\ EngineOnly

\* main() returning without setting _campaign to 0.
MainReturnsKeepingPointer ==
    /\ engine.at = "deleting"
    /\ engine' = [engine EXCEPT !.at = "afterMain"]
    /\ EngineOnly

\* main() sets _campaign to 0 and returns.
MainReturns ==
    /\ engine.at = "deleting"
    /\ engine' = [engine EXCEPT !.at = "afterMain",
                                !.campaign = "null",
                                !.module = "null"]
    /\ EngineOnly

\* NWN2Engine::getCampaign
getCampaign == engine.campaign

\* NWN2Engine::getModule
getModule == IF engine.campaign = "null" THEN "null" ELSE engine.module

\* NWN2Engine::~NWN2Engine, once run() is over: delete _campaign, which
\* deletes nothing when _campaign is 0.
Destroy ==
    /\ engine.at \in {"returned", "aborted"}
    /\ ~engine.destroyed
    /\ engine' = [engine EXCEPT
                    !.destroyed = TRUE,
                    !.deletes = IF engine.campaign = "null" THEN @ ELSE @ + 1]
    /\ EngineOnly

\* run() calls deinit() and returns.
Deinit ==
    /\ engine.at = "afterMain"
    /\ engine' = [engine EXCEPT !.at = "returned", !.trace = Append(@, "deinit")]
    /\ EngineOnly

InitEngine ==
    /\ world = InitWorld
    /\ live = Handles
    /\ store = NoStore
    /\ pc = "idle"
    /\ ctx = NoCtx
    /\ search = NoSearch
    /\ objects = <<>>
    /\ written = NothingWritten
    /\ prevTriggerer = kNull
    /\ build = NoBuild
    /\ registry = NoRegistry
    /\ frame = NoFrame
    /\ engine \in { NewEngine(installed) : installed \in Installations }

NextEngine ==
    \/ RequestQuit
    \/ RunInit
    \/ InitResources
    \/ InitCursors
    \/ InitGameConfig
    \/ HideCursor
    \/ PlayIntroVideos
    \/ ShowCursor
    \/ Main
    \/ MainDeletes
    \/ MainReturns
    \/ Deinit
    \/ Destroy

SpecEngine == InitEngine /\ [][NextEngine]_vars

----------------------------------------------------------------------------
(* Properties of the engine's run *)

\* The phases of run() in the order of its code.
RunPhases == <<"init", "hideCursor", "playIntroVideos", "showCursor", "main", "deinit">>

\* run() has called the phase.
Called(phase) == \E i \in 1..Len(engine.trace) : engine.trace[i] = phase

\* run() is over: it has returned, or main() has ended the program.
RunOver == engine.at \in {"returned", "aborted"}

\* C17: run() calls its phases only in the order init, hide cursor, intro
\* videos, show cursor, main, deinit; it enters main only when no quit was
\* requested after init and none after the videos; it calls deinit exactly
\* when main was entered and has returned, never on a run a quit request ends.
C17_RunPhaseOrder ==
    /\ Len(engine.trace) <= Len(RunPhases)
    /\ \A i \in 1..Len(engine.trace) : engine.trace[i] = RunPhases[i]
    /\ Called("main") => engine.checks = <<FALSE, FALSE>>
    /\ Called("deinit") => Called("main") /\ engine.at = "returned"
    /\ (engine.at = "returned" /\ Called("main")) => Called("deinit")
    /\ (engine.at = "returned" /\ \E i \in 1..Len(engine.checks) : engine.checks[i])
          => ~Called("deinit")
    /\ engine.at = "aborted" => ~Called("deinit")

\* A quit is requested while main runs: main returns and deinit is called.
C17_Witness ==
    /\ engine.at = "returned"
    /\ engine.quit
    /\ engine.trace = RunPhases

\* C18 as claimed: whenever run() has hidden the cursor, it has shown it again
\* when it returns, on the early returns too.
C18_CursorShownAgain ==
    engine.at = "returned" => engine.shows = engine.hides

\* C18: whenever run() has hidden the cursor, it has shown it again when it is
\* over, except on the return a quit request after the intro videos causes:
\* there the cursor stays hidden.
C18_CursorShownUnlessQuitAfterVideos ==
    RunOver =>
        IF Len(engine.checks) = 2 /\ engine.checks[2]
        THEN engine.hides = 1 /\ engine.shows = 0
        ELSE engine.shows = engine.hides

\* run() has hidden and shown the cursor, has run main and has returned.
C18_Witness ==
    /\ engine.at = "returned"
    /\ engine.hides = 1 /\ engine.shows = 1
    /\ Called("deinit")

\* C19: init() never makes more progress steps than its LoadProgress has,
\* makes exactly that many when it runs to its end, and fewer on each return a
\* quit request causes.
C19_ProgressSteps ==
    /\ engine.steps <= kProgressSteps
    /\ engine.initEnd = "end" => engine.steps = kProgressSteps
    /\ engine.initEnd = "quit" => engine.steps < kProgressSteps

\* init() returns on the quit request it finds after the cursors are loaded.
C19_Witness ==
    /\ engine.initEnd = "quit"
    /\ engine.steps = kProgressSteps - 2

\* C20: no two archives or directories initResources indexes have the same
\* priority, and within a group the priorities grow in the order of indexing.
C20_PrioritiesUnique ==
    \A i, j \in 1..Len(engine.indexed) :
        i < j => /\ engine.indexed[i].priority # engine.indexed[j].priority
                 /\ engine.indexed[i].group = engine.indexed[j].group =>
                        engine.indexed[i].priority < engine.indexed[j].priority

\* main() has returned normally.
MainReturned == engine.at \in {"afterMain", "returned"} /\ Called("main")

\* C21: over the life of the engine the campaign main() creates is deleted
\* once and never twice, on main's normal return and, once the engine is
\* destroyed, after main ended on 'No campaigns found'; before main and after
\* its normal return getCampaign() and getModule() return null; and getModule()
\* returns null whenever getCampaign() does.
C21_CampaignLifetime ==
    /\ engine.created <= 1
    /\ engine.deletes <= engine.created
    /\ MainReturned => engine.deletes = 1
    /\ engine.destroyed => engine.deletes = engine.created
    /\ ~engine.destroyed =>
          /\ (~Called("main") \/ MainReturned) =>
                (getCampaign = "null" /\ getModule = "null")
          /\ getCampaign = "null" => getModule = "null"

\* main() ended on 'No campaigns found' with the campaign still held, and the
\* destructor has deleted it.
C21_Witness ==
    /\ engine.at = "aborted"
    /\ engine.destroyed
    /\ engine.created = 1
    /\ engine.deletes = 1

====
